---- MODULE Spec2Model ----
(***************************************************************************)
(* Model of the denyenv validating admission webhook (src/index.js).       *)
(*                                                                         *)
(* One invocation of denyenv(req, res) is a frame with a program counter   *)
(* named after the source line it is about to execute.  The request body   *)
(* is a JSON document, modelled as a record whose DOMAIN is the set of     *)
(* keys that are present; the response body is the JSON text produced by   *)
(* JSON.stringify.  console.log output is kept per invocation (the         *)
(* platform groups log lines by execution id).                             *)
(***************************************************************************)
EXTENDS Integers, Sequences, FiniteSets, TLC

VARIABLES pc, req, res, log, idx, found, admissionResponse, admissionReview

vars == <<pc, req, res, log, idx, found, admissionResponse, admissionReview>>

(***************************************************************************)
(* Bounds of the model.                                                    *)
(***************************************************************************)
\* Longest spec.containers sequence of a request handled one at a time.
MaxContainers == 3
\* Longest spec.containers sequence of a request in the interleaved runs.
MaxConcContainers == 1

\* The two invocations whose interleavings are explored.
Invocations == {1, 2}

Uids == {"uid-1", "uid-2"}
Names == {"nginx", "sidecar"}
PodName == "web"

(***************************************************************************)
(* Request bodies.                                                         *)
(***************************************************************************)
Has(o, k) == k \in DOMAIN o

SeqsUpTo(S, n) == UNION {[1..k -> S] : k \in 0..n}

\* The value of a container's env key when it has one: an empty list or a
\* list with one variable.
EnvLists == {<<>>, <<[name |-> "PASSWORD", value |-> "fail"]>>}

Containers ==
  {[name |-> n] : n \in Names}
    \cup {[name |-> n, env |-> e] : n \in Names, e \in EnvLists}

\* Containers of the interleaved runs: without env, or with a non-empty env.
ConcContainers ==
  {[name |-> n] : n \in Names}
    \cup {[name |-> n, env |-> <<[name |-> "PASSWORD", value |-> "fail"]>>] : n \in Names}

Pod(cs) == [metadata |-> [name |-> PodName], spec |-> [containers |-> cs]]

Review(u, obj) == [request |-> [uid |-> u, operation |-> "CREATE", object |-> obj]]

\* Bodies on which some property access of the handler fails.
MalformedBodies ==
  {[kind |-> "AdmissionReview"]}
    \cup {[request |-> [uid |-> u, operation |-> "CREATE"]] : u \in Uids}
    \cup {Review(u, [spec |-> [containers |-> <<>>]]) : u \in Uids}
    \cup {Review(u, [metadata |-> [name |-> PodName]]) : u \in Uids}
    \cup {Review(u, [metadata |-> [name |-> PodName],
                     spec |-> [restartPolicy |-> "Always"]]) : u \in Uids}

WellFormedBodies ==
  {Review(u, Pod(cs)) : u \in Uids, cs \in SeqsUpTo(Containers, MaxContainers)}

Bodies == WellFormedBodies \cup MalformedBodies

ConcBodies ==
  {Review(u, Pod(cs)) : u \in Uids, cs \in SeqsUpTo(ConcContainers, MaxConcContainers)}
    \cup MalformedBodies

\* req of an invocation slot that has not received a request yet.
NoBody == [none |-> TRUE]

(***************************************************************************)
(* The HTTP response object (Express semantics of the calls of lines       *)
(* 39-41).                                                                 *)
(***************************************************************************)
FreshRes ==
  [statusCode |-> 200, contentType |-> "", body |-> <<>>,
   finished |-> FALSE, sentStatus |-> 0]

SetHeader(r, v) == [r EXCEPT !.contentType = v]

\* Variant: the body is written twice.
SendTwice(r, text) ==
  [r EXCEPT !.body = Append(Append(@, text), text), !.finished = TRUE,
            !.sentStatus = r.statusCode]

\* res.send(text): writes the head with the current status code, writes the
\* body and finishes the response.
Send(r, text) ==
  [r EXCEPT !.body = Append(@, text), !.finished = TRUE, !.sentStatus = r.statusCode]

Status(r, code) == [r EXCEPT !.statusCode = code]

\* res.end(): finishes the response; nothing more is written when res.send
\* has already finished it.
End(r) ==
  IF r.finished THEN r
  ELSE [r EXCEPT !.finished = TRUE, !.sentStatus = r.statusCode]

(***************************************************************************)
(* Pure helpers of the handler.                                            *)
(***************************************************************************)
\* Variant: an env key counts only when its list is not empty.
HasEnvNonEmpty(container) == "env" \in DOMAIN container /\ container.env # <<>>

\* "env" in container
HasEnv(container) == "env" \in DOMAIN container

\* `${container.name} is using env vars`
Msg(name) == name \o " is using env vars"

\* `validating the ${object.metadata.name} pod`
ValidatingMsg(name) == "validating the " \o name \o " pod"

\* Variant: the denial carries code 403.
StatusBlock403(container) ==
  [status |-> "Failure", message |-> Msg(container.name),
   reason |-> Msg(container.name), code |-> 403]

\* The object literal of lines 20-25.
StatusBlock(container) ==
  [status |-> "Failure", message |-> Msg(container.name),
   reason |-> Msg(container.name), code |-> 402]

\* Variant: the status block is written for the first match only.
SetStatusOnce(resp, st) == IF "status" \in DOMAIN resp THEN resp ELSE ("status" :> st) @@ resp

\* admissionResponse.status = {...}: adds the key or overwrites it.
SetStatus(resp, st) == ("status" :> st) @@ resp

\* Variant: the test on found is missing.
FinalizeAlways(resp, fnd) == [resp EXCEPT !.allowed = TRUE]

\* Lines 31-33.
Finalize(resp, fnd) == IF ~fnd THEN [resp EXCEPT !.allowed = TRUE] ELSE resp

(***************************************************************************)
(* JSON.stringify on the objects of the handler: every key that is present *)
(* is written, string values are quoted, numbers and booleans are not.     *)
(***************************************************************************)
Quote(s) == "\"" \o s \o "\""

BoolText(b) == IF b THEN "true" ELSE "false"

StringifyStatus(st) ==
  "{\"status\":" \o Quote(st.status)
    \o ",\"message\":" \o Quote(st.message)
    \o ",\"reason\":" \o Quote(st.reason)
    \o ",\"code\":" \o ToString(st.code) \o "}"

StringifyResponse(r) ==
  "{\"allowed\":" \o BoolText(r.allowed)
    \o (IF Has(r, "status") THEN ",\"status\":" \o StringifyStatus(r.status) ELSE "")
    \o (IF Has(r, "uid") THEN ",\"uid\":" \o Quote(r.uid) ELSE "")
    \o "}"

JSONStringify(review) == "{\"response\":" \o StringifyResponse(review.response) \o "}"

(***************************************************************************)
(* Locals of a frame.                                                      *)
(***************************************************************************)
\* Variant: found and admissionResponse are declared at module level, one
\* copy for all invocations.
SharedCell(i) == 1

\* found and admissionResponse are declared with var inside the function:
\* each invocation has its own.
Cell(i) == i

NoResponse == [allowed |-> FALSE]

Init ==
  /\ pc = [i \in Invocations |-> "idle"]
  /\ req = [i \in Invocations |-> NoBody]
  /\ res = [i \in Invocations |-> FreshRes]
  /\ log = [i \in Invocations |-> <<>>]
  /\ idx = [i \in Invocations |-> 0]
  /\ found = [i \in Invocations |-> FALSE]
  /\ admissionResponse = [i \in Invocations |-> NoResponse]
  /\ admissionReview = [i \in Invocations |-> [response |-> NoResponse]]

\* The platform calls denyenv(req, res) with a new request and response.
Receive(i, body) ==
  /\ pc[i] \in {"idle", "done", "threw"}
  /\ pc' = [pc EXCEPT ![i] = "L7"]
  /\ req' = [req EXCEPT ![i] = body]
  /\ res' = [res EXCEPT ![i] = FreshRes]
  /\ log' = [log EXCEPT ![i] = <<>>]
  /\ UNCHANGED <<idx, found, admissionResponse, admissionReview>>

\* The frame is discarded when the function returns or throws.
PopFrame(i) ==
  /\ idx' = [idx EXCEPT ![i] = 0]
  /\ found' = [found EXCEPT ![Cell(i)] = FALSE]
  /\ admissionResponse' = [admissionResponse EXCEPT ![Cell(i)] = NoResponse]
  /\ admissionReview' = [admissionReview EXCEPT ![i] = [response |-> NoResponse]]

\* An uncaught TypeError leaves the function: nothing after the failing
\* line runs, and res is left as it is.
Throw(i) ==
  /\ pc' = [pc EXCEPT ![i] = "threw"]
  /\ PopFrame(i)
  /\ UNCHANGED <<req, res, log>>

\* var object = admissionRequest.request.object
Object(i) == req[i].request.object

ContainersOf(i) == Object(i).spec.containers

\* Line 7: reading .object of an absent request is a TypeError; an absent
\* object is read as undefined.
L7(i) ==
  /\ pc[i] = "L7"
  /\ IF Has(req[i], "request")
       THEN /\ pc' = [pc EXCEPT ![i] = "L9"]
            /\ UNCHANGED <<req, res, log, idx, found, admissionResponse, admissionReview>>
       ELSE Throw(i)

\* Variant: an absent object or metadata skips the validation instead of
\* failing.
PcAfterL9Lenient(body) ==
  IF Has(body.request, "object") /\ Has(body.request.object, "metadata")
    THEN "L11" ELSE "L31"

\* Line 9: object.metadata.name is a TypeError when object or
\* object.metadata is undefined.
PcAfterL9(body) ==
  IF Has(body.request, "object") /\ Has(body.request.object, "metadata")
    THEN "L11" ELSE "threw"

L9(i) ==
  /\ pc[i] = "L9"
  /\ LET nxt == PcAfterL9(req[i]) IN
       IF nxt = "threw" THEN Throw(i)
       ELSE /\ pc' = [pc EXCEPT ![i] = nxt]
            /\ log' = [log EXCEPT ![i] =
                 IF nxt = "L11" THEN Append(@, ValidatingMsg(Object(i).metadata.name))
                 ELSE @]
            /\ UNCHANGED <<req, res, idx, found, admissionResponse, admissionReview>>

L11(i) ==
  /\ pc[i] = "L11"
  /\ admissionResponse' = [admissionResponse EXCEPT ![Cell(i)] = [allowed |-> FALSE]]
  /\ pc' = [pc EXCEPT ![i] = "L15"]
  /\ UNCHANGED <<req, res, log, idx, found, admissionReview>>

L15(i) ==
  /\ pc[i] = "L15"
  /\ found' = [found EXCEPT ![Cell(i)] = FALSE]
  /\ pc' = [pc EXCEPT ![i] = "L16"]
  /\ UNCHANGED <<req, res, log, idx, admissionResponse, admissionReview>>

\* Line 16, entering the loop: object.spec.containers is a TypeError when
\* spec is absent, and for-of is a TypeError when containers is absent.
L16(i) ==
  /\ pc[i] = "L16"
  /\ IF Has(Object(i), "spec") /\ Has(Object(i).spec, "containers")
       THEN /\ pc' = [pc EXCEPT ![i] = "L16n"]
            /\ idx' = [idx EXCEPT ![i] = 0]
            /\ UNCHANGED <<req, res, log, found, admissionResponse, admissionReview>>
       ELSE Throw(i)

\* Line 16, each turn of the loop: the next container, or the end.
L16n(i) ==
  /\ pc[i] = "L16n"
  /\ IF idx[i] < Len(ContainersOf(i))
       THEN /\ idx' = [idx EXCEPT ![i] = @ + 1]
            /\ pc' = [pc EXCEPT ![i] = "L17"]
       ELSE /\ pc' = [pc EXCEPT ![i] = "L31"]
            /\ UNCHANGED idx
  /\ UNCHANGED <<req, res, log, found, admissionResponse, admissionReview>>

L17(i) ==
  /\ pc[i] = "L17"
  /\ pc' = [pc EXCEPT ![i] = IF HasEnv(ContainersOf(i)[idx[i]]) THEN "L18" ELSE "L16n"]
  /\ UNCHANGED <<req, res, log, idx, found, admissionResponse, admissionReview>>

L18(i) ==
  /\ pc[i] = "L18"
  /\ log' = [log EXCEPT ![i] = Append(@, Msg(ContainersOf(i)[idx[i]].name))]
  /\ pc' = [pc EXCEPT ![i] = "L20"]
  /\ UNCHANGED <<req, res, idx, found, admissionResponse, admissionReview>>

L20(i) ==
  /\ pc[i] = "L20"
  /\ admissionResponse' = [admissionResponse EXCEPT ![Cell(i)] =
       SetStatus(@, StatusBlock(ContainersOf(i)[idx[i]]))]
  /\ pc' = [pc EXCEPT ![i] = "L27"]
  /\ UNCHANGED <<req, res, log, idx, found, admissionReview>>

\* Variant: the loop breaks at the first match.
AfterMatchBreak == "L31"

\* Where control goes after the body of the if: there is no break, the loop
\* goes on with the next container.
AfterMatch == "L16n"

L27(i) ==
  /\ pc[i] = "L27"
  /\ found' = [found EXCEPT ![Cell(i)] = TRUE]
  /\ pc' = [pc EXCEPT ![i] = AfterMatch]
  /\ UNCHANGED <<req, res, log, idx, admissionResponse, admissionReview>>

L31(i) ==
  /\ pc[i] = "L31"
  /\ admissionResponse' = [admissionResponse EXCEPT ![Cell(i)] =
       Finalize(@, found[Cell(i)])]
  /\ pc' = [pc EXCEPT ![i] = "L35"]
  /\ UNCHANGED <<req, res, log, idx, found, admissionReview>>

L35(i) ==
  /\ pc[i] = "L35"
  /\ admissionReview' = [admissionReview EXCEPT ![i] =
       [response |-> admissionResponse[Cell(i)]]]
  /\ pc' = [pc EXCEPT ![i] = "L39"]
  /\ UNCHANGED <<req, res, log, idx, found, admissionResponse>>

L39(i) ==
  /\ pc[i] = "L39"
  /\ res' = [res EXCEPT ![i] = SetHeader(@, "application/json")]
  /\ pc' = [pc EXCEPT ![i] = "L40"]
  /\ UNCHANGED <<req, log, idx, found, admissionResponse, admissionReview>>

L40(i) ==
  /\ pc[i] = "L40"
  /\ res' = [res EXCEPT ![i] = Send(@, JSONStringify(admissionReview[i]))]
  /\ pc' = [pc EXCEPT ![i] = "L41"]
  /\ UNCHANGED <<req, log, idx, found, admissionResponse, admissionReview>>

L41(i) ==
  /\ pc[i] = "L41"
  /\ res' = [res EXCEPT ![i] = End(Status(@, 200))]
  /\ pc' = [pc EXCEPT ![i] = "done"]
  /\ PopFrame(i)
  /\ UNCHANGED <<req, log>>

\* The statements of one invocation.
Step(i) ==
  \/ L7(i) \/ L9(i) \/ L11(i) \/ L15(i) \/ L16(i) \/ L16n(i) \/ L17(i)
  \/ L18(i) \/ L20(i) \/ L27(i) \/ L31(i) \/ L35(i) \/ L39(i) \/ L40(i) \/ L41(i)

\* Requests handled one at a time: the next one is received after the
\* previous invocation has returned or thrown.
Next ==
  \/ \E body \in Bodies : Receive(1, body)
  \/ Step(1)

Spec == Init /\ [][Next]_vars

\* The handler is synchronous: once called it runs until it returns or
\* throws.
FairSpec == Spec /\ WF_vars(Step(1))

\* Two invocations whose statements interleave in every order.
NextConc ==
  \E i \in Invocations :
    \/ \E body \in ConcBodies : Receive(i, body)
    \/ Step(i)

SpecConc == Init /\ [][NextConc]_vars

(***************************************************************************)
(* Reading a response body back.  The receiver of the response parses the  *)
(* JSON text; ParseTable lists the text of every response document over    *)
(* the keys allowed, status and uid, whether or not the handler can        *)
(* produce it.                                                             *)
(***************************************************************************)
ExpectedMsg(name) == name \o " is using env vars"

StatusUniverse ==
  [status : {"Failure"},
   message : {ExpectedMsg(n) : n \in Names},
   reason : {ExpectedMsg(n) : n \in Names},
   code : {402, 403}]

ResponseUniverse ==
  LET base == {[allowed |-> a] : a \in BOOLEAN}
      withStatus == base \cup {("status" :> st) @@ r : st \in StatusUniverse, r \in base}
  IN  withStatus \cup {("uid" :> u) @@ r : u \in Uids, r \in withStatus}

ParseTable == {<<JSONStringify([response |-> r]), [response |-> r]>> : r \in ResponseUniverse}

JSONParse(text) == (CHOOSE p \in ParseTable : p[1] = text)[2]

\* The request of invocation i has an object with metadata and
\* spec.containers.
HasContainers(i) ==
  /\ Has(req[i], "request")
  /\ Has(req[i].request, "object")
  /\ Has(req[i].request.object, "metadata")
  /\ Has(req[i].request.object, "spec")
  /\ Has(req[i].request.object.spec, "containers")

\* The request of invocation i has a request block without an object.
LacksObject(i) == Has(req[i], "request") /\ ~Has(req[i].request, "object")

ReqContainers(i) == req[i].request.object.spec.containers

\* A response body has been sent for invocation i.
Sent(i) == Len(res[i].body) > 0

\* The response block of the body sent for invocation i.
Reply(i) == JSONParse(res[i].body[1]).response

EnvKeyPresent(c) == "env" \in DOMAIN c

\* Positions of the containers that have an env key.
Offenders(cs) == {k \in 1..Len(cs) : EnvKeyPresent(cs[k])}

FirstOffender(cs) == CHOOSE k \in Offenders(cs) : \A m \in Offenders(cs) : k <= m

LastOffender(cs) == CHOOSE k \in Offenders(cs) : \A m \in Offenders(cs) : k >= m

DistinctNames(cs) == \A k, m \in 1..Len(cs) : cs[k].name = cs[m].name => k = m

\* C1: for a request with metadata and spec.containers, a response is
\* written when the handler returns, and it has allowed = true exactly
\* when no container has an env key (an empty env list counts as having it).
C1_AllowedIffNoEnvKey ==
  \A i \in Invocations :
    HasContainers(i) =>
      /\ pc[i] = "done" => Sent(i)
      /\ Sent(i) => (Reply(i).allowed <=> Offenders(ReqContainers(i)) = {})

C1_Witness ==
  /\ pc[1] = "done" /\ HasContainers(1) /\ Sent(1)
  /\ Len(ReqContainers(1)) = 2
  /\ ~EnvKeyPresent(ReqContainers(1)[1])
  /\ EnvKeyPresent(ReqContainers(1)[2]) /\ ReqContainers(1)[2].env = <<>>
  /\ ~Reply(1).allowed

C3_StatusIffDenied ==
  \A i \in Invocations :
    Sent(i) => (Has(Reply(i), "status") <=> Reply(i).allowed = FALSE)

C3_Witness ==
  /\ Sent(1) /\ Reply(1).allowed = FALSE /\ Has(Reply(1), "status")

\* C4: an invocation never sends more than one body; a body is sent with
\* transport status 200 and the JSON content type whatever allowed is; an
\* invocation that has returned has sent exactly one body; and an invocation
\* that has reached its decision goes on to return.
C4_Safety ==
  \A i \in Invocations :
    /\ Len(res[i].body) <= 1
    /\ Sent(i) =>
         /\ res[i].sentStatus = 200
         /\ res[i].contentType = "application/json"
         /\ res[i].finished
    /\ pc[i] = "done" => (Len(res[i].body) = 1 /\ res[i].statusCode = 200)

C4_Status200BodyOnce ==
  /\ []C4_Safety
  /\ (pc[1] = "L35") ~> (pc[1] = "done")

C4_Witness ==
  /\ pc[1] = "done" /\ Sent(1) /\ Reply(1).allowed = FALSE
  /\ res[1].sentStatus = 200 /\ Len(res[1].body) = 1

\* C5: the response sent for a request carries that request's uid.
C5_UidEchoed ==
  \A i \in Invocations :
    (HasContainers(i) /\ Sent(i)) =>
      (Has(Reply(i), "uid") /\ Reply(i).uid = req[i].request.uid)

\* C6: for a request without request.object the invocation throws before
\* the first log event and before the loop; no body is ever sent.
C6_NoObjectThrows ==
  \A i \in Invocations :
    LacksObject(i) =>
      /\ pc[i] \in {"L7", "L9", "threw"}
      /\ res[i].body = <<>>
      /\ ~res[i].finished
      /\ log[i] = <<>>
      /\ idx[i] = 0

C6_Witness == LacksObject(1) /\ pc[1] = "threw"

\* C7: two invocations that have finished with the same request body have
\* the same outcome, response and log, whatever the other invocation did in
\* between.
C7_NoInterference ==
  \A i, j \in Invocations :
    (pc[i] \in {"done", "threw"} /\ pc[j] \in {"done", "threw"} /\ req[i] = req[j]) =>
      /\ pc[i] = pc[j]
      /\ res[i] = res[j]
      /\ log[i] = log[j]

C7_Witness ==
  /\ pc[1] = "done" /\ pc[2] = "done" /\ req[1] = req[2]
  /\ HasContainers(1) /\ Offenders(ReqContainers(1)) # {}
  /\ Sent(1) /\ Sent(2) /\ Reply(2).allowed = FALSE

\* C8: when more than one container has an env key, message and reason
\* name the first of them.
C8_FirstOffenderNamed ==
  \A i \in Invocations :
    (HasContainers(i) /\ Sent(i) /\ Cardinality(Offenders(ReqContainers(i))) > 1) =>
      LET cs == ReqContainers(i) IN
        /\ Has(Reply(i), "status")
        /\ Reply(i).status.message = ExpectedMsg(cs[FirstOffender(cs)].name)
        /\ Reply(i).status.reason = ExpectedMsg(cs[FirstOffender(cs)].name)

\* C9: the status block is written for every container that has an env
\* key, so the response names the last of them; the response has one
\* status block only, and an earlier offender with another name is not in
\* it.
C9_LastOffenderNamed ==
  \A i \in Invocations :
    HasContainers(i) =>
      LET cs == ReqContainers(i) IN
        /\ pc[i] = "L27" =>
             /\ Has(admissionResponse[i], "status")
             /\ admissionResponse[i].status.message = ExpectedMsg(cs[idx[i]].name)
             /\ admissionResponse[i].status.reason = ExpectedMsg(cs[idx[i]].name)
        /\ (Sent(i) /\ Offenders(cs) # {}) =>
             /\ DOMAIN Reply(i) = {"allowed", "status"}
             /\ Reply(i).status.message = ExpectedMsg(cs[LastOffender(cs)].name)
             /\ Reply(i).status.reason = ExpectedMsg(cs[LastOffender(cs)].name)
             /\ \A k \in Offenders(cs) :
                  cs[k].name # cs[LastOffender(cs)].name =>
                    /\ Reply(i).status.message # ExpectedMsg(cs[k].name)
                    /\ Reply(i).status.reason # ExpectedMsg(cs[k].name)

C9_Witness ==
  /\ pc[1] = "done" /\ HasContainers(1) /\ Sent(1)
  /\ Offenders(ReqContainers(1)) = {1, 2}
  /\ Len(ReqContainers(1)) = 3
  /\ ReqContainers(1)[1].name # ReqContainers(1)[2].name
  /\ Reply(1).status.message = ExpectedMsg(ReqContainers(1)[2].name)

\* The log of an invocation that has examined the first n containers.
ExpectedLog(i, n) ==
  LET cs == ReqContainers(i)
      hit == SelectSeq(SubSeq(cs, 1, n), EnvKeyPresent)
  IN  <<"validating the " \o req[i].request.object.metadata.name \o " pod">>
        \o [k \in 1..Len(hit) |-> ExpectedMsg(hit[k].name)]

\* C10: the loop leaves no container out: it ends with every container
\* examined, having logged one event for each container that has an env
\* key, in container order, after the validating event; the log is complete
\* when the body is sent.
C10_NoShortCircuit ==
  \A i \in Invocations :
    HasContainers(i) =>
      /\ pc[i] = "L16n" => log[i] = ExpectedLog(i, idx[i])
      /\ pc[i] \in {"L31", "L35", "L39", "L40", "L41"} =>
           /\ idx[i] = Len(ReqContainers(i))
           /\ log[i] = ExpectedLog(i, Len(ReqContainers(i)))
           /\ pc[i] # "L41" => ~Sent(i)
      /\ Sent(i) => log[i] = ExpectedLog(i, Len(ReqContainers(i)))

C10_Witness ==
  /\ pc[1] = "done" /\ HasContainers(1) /\ Sent(1)
  /\ Len(ReqContainers(1)) = 3
  /\ Offenders(ReqContainers(1)) = {1, 3}
  /\ Len(log[1]) = 3

====
